---- MODULE Spec2Model ----
(***************************************************************************)
(* LunaAI backend: the /auth and /users endpoints (routes/auth.py,         *)
(* routes/users.py) over the external "Users" table reached through the    *)
(* module-level supabase client (supadb/client.py).                        *)
(*                                                                         *)
(* A handler is cut into one action per store access: the store accesses   *)
(* of concurrent requests interleave, the Python between two accesses is   *)
(* local to the request.  signup and upsert_user make three accesses       *)
(* (check, insert, fetch); login, token, get_current_user and              *)
(* verify_user_password make one.                                          *)
(*                                                                         *)
(* Strings are TLA+ strings.  The clock counts minutes.                    *)
(***************************************************************************)
EXTENDS Naturals, Sequences, FiniteSets, TLC

VARIABLES
    uniqueEmail,   \* deployment: the Users table has a UNIQUE constraint on user_email
    envSecret,     \* deployment: os.environ["JWT_SECRET_KEY"], or Unset
    store,         \* rows of the Users table
    nextId,        \* the table's serial user_id
    now,           \* the clock, in minutes
    reqs,          \* signup / upsert requests: position and locals
    tokens,        \* access tokens clients hold
    resp,          \* what the last step sent to its client (NoResponse: nothing)
    codec          \* a token issued and decoded outside the endpoints

vars == <<uniqueEmail, envSecret, store, nextId, now, reqs, tokens, resp, codec>>

----------------------------------------------------------------------------
(* Bounds *)

\* signup and upsert requests served in one behaviour
MaxReqs == 2
\* clock ticks in one behaviour
MaxTicks == 2
\* minutes per clock tick: a token lives through one tick and not through two
TickMinutes == 1000
\* tokens clients keep at a time
MaxTokens == 1

----------------------------------------------------------------------------
(* Inputs *)

Emails == {"a@x.com", "b@x.com"}
Passwords == {"secret1", "secret2"}
ShortPasswords == {"abc"}
\* the payloads of signup and upsert requests: first_name, last_name ("": None),
\* email, password
Payloads == {[first_name |-> "Aanya", last_name |-> "Sharma", email |-> "a@x.com",
              password |-> "secret1"],
             [first_name |-> "Bo", last_name |-> "", email |-> "a@x.com",
              password |-> "secret2"],
             [first_name |-> "Bo", last_name |-> "", email |-> "b@x.com",
              password |-> "secret1"]}
\* payloads SignupRequest rejects: no first name, no email address, a short password
BadPayloads == {[first_name |-> "", last_name |-> "", email |-> "a@x.com",
                 password |-> "secret1"],
                [first_name |-> "Bo", last_name |-> "", email |-> "not-an-email",
                 password |-> "secret1"],
                [first_name |-> "Bo", last_name |-> "", email |-> "b@x.com",
                 password |-> "abc"]}
\* the random salt of one Argon2 hash: a fresh one for every request that hashes
Salt(i) == "s" \o ToString(i)
Salts == {Salt(i) : i \in 1 .. MaxReqs}
Unset == "<unset>"
EnvSecrets == {Unset, "env-secret"}

----------------------------------------------------------------------------
(* Password hashing: passlib CryptContext(schemes=["argon2"]) *)

Argon2Ident == "$argon2id$v=19$"

\* the hash string of password p under salt s: ident, salt, digest
Argon2(p, s) == Argon2Ident \o s \o "$" \o "H(" \o s \o "," \o p \o ")"

get_password_hash(password, salt) == Argon2(password, salt)

\* CryptContext.identify: the string has the shape of an argon2 hash
Identified(h) == \E p \in Passwords \cup ShortPasswords, s \in Salts : h = Argon2(p, s)

\* "ok" / "mismatch", or "UnknownHashError" when the hash is not identified
\* (CryptContext.verify raises it; no handler catches it)
verify_password(plain_password, hashed_password) ==
    IF ~Identified(hashed_password) THEN "UnknownHashError"
    ELSE IF \E s \in Salts : hashed_password = Argon2(plain_password, s) THEN "ok"
    ELSE "mismatch"

----------------------------------------------------------------------------
(* JWT: python-jose, HS256 *)

JWT_SECRET_KEY == "change-this-in-env"
JWT_EXPIRE_MINUTES == 60 * 24

\* os.getenv("JWT_SECRET_KEY", JWT_SECRET_KEY)
jwt_secret == IF envSecret = Unset THEN JWT_SECRET_KEY ELSE envSecret

\* JSON values of the claims: a string, a number
JsonStr(text) == [type |-> "str", text |-> text]
JsonInt(n) == [type |-> "int", text |-> ToString(n)]
\* str(x)
Str(n) == JsonStr(ToString(n))

NoClaims == [exp |-> 0, sub |-> JsonStr(""), email |-> ""]

\* the MAC of the claims under a key: whoever holds the key can make it, and it
\* fits no other claims
HS256(key, claims) == [key |-> key, claims |-> claims]

\* jwt.encode: the claims and their signature
jwt_encode(claims, key) == [claims |-> claims, sig |-> HS256(key, claims)]

NoToken == jwt_encode(NoClaims, "")

\* a token that expires expires_delta after now, with no default
create_access_token_NoDefault(subject, expires_delta) ==
    jwt_encode([exp |-> now + expires_delta, sub |-> subject.sub, email |-> subject.email],
               jwt_secret)

\* to_encode = {"exp": expire, **subject}; expires_delta None or zero is falsy and
\* gives the default
create_access_token(subject, expires_delta) ==
    LET expire == now + (IF expires_delta # 0 THEN expires_delta
                         ELSE JWT_EXPIRE_MINUTES) IN
    jwt_encode([exp |-> expire, sub |-> subject.sub, email |-> subject.email],
               jwt_secret)

\* a decode that does not look at exp
JWTError_NoExpiry(t, key) ==
    \/ t.sig # HS256(key, t.claims)
    \/ t.claims.sub.type # "str"

\* jwt.decode raises a JWTError: the signature does not verify under the key, exp is
\* before now (ExpiredSignatureError), or sub is not a string (JWTClaimsError)
JWTError(t, key) ==
    \/ t.sig # HS256(key, t.claims)
    \/ t.claims.exp < now
    \/ t.claims.sub.type # "str"

NoPayload == [sub |-> "", email |-> ""]

\* the payload, or the 401 "Invalid token" raised
decode_access_token(t) ==
    IF JWTError(t, jwt_secret)
    THEN [ok |-> FALSE, status |-> 401, detail |-> "Invalid token", payload |-> NoPayload]
    ELSE [ok |-> TRUE, status |-> 200, detail |-> "",
          payload |-> [sub |-> t.claims.sub.text, email |-> t.claims.email]]

----------------------------------------------------------------------------
(* The Users table *)

NoUser == [user_id |-> 0, user_email |-> "", first_name |-> "", last_name |-> "",
           created_at |-> 0]

\* an identity that carries the row's user_pwd
UserPublic_WithPwd(row) ==
    [user_id |-> row.user_id, user_email |-> row.user_email,
     first_name |-> row.first_name, last_name |-> row.last_name,
     created_at |-> row.created_at, user_pwd |-> row.user_pwd]

\* select("user_id, user_email, first_name, last_name, created_at") and UserPublic(**row)
UserPublic(row) == [user_id |-> row.user_id, user_email |-> row.user_email,
                    first_name |-> row.first_name, last_name |-> row.last_name,
                    created_at |-> row.created_at]

\* .eq("user_email", email): the matching rows; .limit(1) returns any one of them
ByEmail(email) == {r \in store : r.user_email = email}

\* .eq("user_id", sub): PostgREST compares the text of the filter with the column
ById(sub) == {r \in store : ToString(r.user_id) = sub}

\* the row an insert adds: the table assigns user_id and created_at
\* (not columns: req, the request that inserted it, and supplied, the password of
\* that request's payload)
NewRow(i, data) ==
    [user_id |-> nextId, user_email |-> data.user_email, user_pwd |-> data.user_pwd,
     first_name |-> data.first_name, last_name |-> data.last_name, created_at |-> now,
     req |-> i, supplied |-> reqs[i].password]

\* the insert violates the table's uniqueness constraint
UniqueViolation(email) == uniqueEmail /\ ByEmail(email) # {}

----------------------------------------------------------------------------
(* Requests and responses *)

ReqIds == 1 .. MaxReqs

\* a signup or upsert request: where it is, the locals it still uses (its payload and
\* insert_data["user_pwd"] up to the insert, the email up to the fetch) and, once
\* done, the status it answered and whether its insert went through
IdleReq == [op |-> "", pc |-> "idle", email |-> "", password |-> "", first_name |-> "",
            last_name |-> "", user_pwd |-> "", inserted |-> FALSE, status |-> 0]

NoRequest == [email |-> "", password |-> "", bearer |-> NoToken]

NoBody == [detail |-> "", user |-> NoUser, access_token |-> NoToken, token_type |-> ""]

\* a response: the handler and its step, the request it answers, the HTTP status and
\* body, and (not sent) the payload decoded from the bearer token, what the store
\* or a library did to cause the response, and the strings the step wrote to standard
\* output and to the log (recorded for signup, login and token)
NoResponse == [op |-> "", step |-> "", req |-> 0, request |-> NoRequest, status |-> 0,
               body |-> NoBody, data |-> NoPayload, err |-> "", written |-> {}]

Responses == {"signup", "upsert", "login", "token", "get_current_user",
              "verify_user_password"}

Credentials(email, password) == [NoRequest EXCEPT !.email = email, !.password = password]

\* raise HTTPException(status_code=status, detail=detail)
HTTPException(op, step, i, request, status, detail, err) ==
    [NoResponse EXCEPT !.op = op, !.step = step, !.req = i, !.request = request,
                       !.status = status, !.body.detail = detail, !.err = err]

\* LOG_LEVEL of the process that serves the request (main.py: default INFO)
LogLevels == {"INFO", "DEBUG"}

\* logger.debug(...) writes at level DEBUG only
Debug(level, strings) == IF level = "DEBUG" THEN strings ELSE {}

\* the step also wrote these strings with print(), logger.info() or logger.debug()
Wrote(response, strings) == [response EXCEPT !.written = strings]

\* str() of a pydantic model or of a dict shows the value of every field
Shown(record) == {record[f] : f \in DOMAIN record}

\* an exception no handler catches: the server answers 500
Unhandled(op, step, i, request, err) ==
    HTTPException(op, step, i, request, 500, "Internal Server Error", err)

\* a response_model=UserPublic response
UserResponse(op, step, i, request, status, user) ==
    [NoResponse EXCEPT !.op = op, !.step = step, !.req = i, !.request = request,
                       !.status = status, !.body.user = user]

\* TokenResponse(access_token=token, user=user_public)
TokenResponse(op, request, access_token, user) ==
    [NoResponse EXCEPT !.op = op, !.step = "verify", !.request = request,
                       !.status = 200, !.body.user = user,
                       !.body.access_token = access_token, !.body.token_type = "bearer"]

\* requests are numbered in the order they arrive
Arrives(i) == reqs[i].pc = "idle" /\ \A j \in ReqIds : j < i => reqs[j].pc # "idle"

Accept(i, op, payload, user_pwd) ==
    reqs' = [reqs EXCEPT ![i] = [IdleReq EXCEPT !.op = op, !.pc = "insert",
                !.email = payload.email, !.password = payload.password,
                !.first_name = payload.first_name, !.last_name = payload.last_name,
                !.user_pwd = user_pwd]]

\* the handler returns at its first step
Reject(i, op, status) ==
    reqs' = [reqs EXCEPT ![i] = [IdleReq EXCEPT !.op = op, !.pc = "done",
                                                !.status = status]]

Inserted(i) ==
    reqs' = [reqs EXCEPT ![i] = [IdleReq EXCEPT !.op = reqs[i].op, !.pc = "fetch",
                                                !.email = reqs[i].email,
                                                !.inserted = TRUE]]

Finish(i, status) ==
    reqs' = [reqs EXCEPT ![i] = [IdleReq EXCEPT !.op = reqs[i].op, !.pc = "done",
                                                !.inserted = reqs[i].inserted,
                                                !.status = status]]

insert_data(i) == [user_email |-> reqs[i].email, user_pwd |-> reqs[i].user_pwd,
                   first_name |-> reqs[i].first_name, last_name |-> reqs[i].last_name]

\* a client keeps the token it was given, while it has room
Keep(t) == IF Cardinality(tokens) < MaxTokens THEN tokens \cup {t} ELSE tokens

\* one use of the codec: the arguments, the token made from them
NoCodec == [pc |-> "off", id |-> 0, email |-> "", ttl |-> 0, token |-> NoToken]

Init ==
    /\ uniqueEmail \in BOOLEAN
    /\ envSecret \in EnvSecrets
    /\ store = {}
    /\ nextId = 1
    /\ now = 0
    /\ reqs = [i \in ReqIds |-> IdleReq]
    /\ tokens = {}
    /\ resp = NoResponse
    /\ codec = NoCodec

----------------------------------------------------------------------------
(* POST /auth/signup *)

\* SignupRequest: first_name min_length 1, email an EmailStr, password min_length 6
SignupRequest(payload) ==
    Len(payload.first_name) >= 1 /\ payload.email \in Emails /\ Len(payload.password) >= 6

\* a payload the request model rejects: 422, the handler does not run
signup_invalid(payload) ==
    /\ resp = NoResponse
    /\ ~SignupRequest(payload)
    /\ resp' = HTTPException("signup", "validate", 0,
                             Credentials(payload.email, payload.password), 422,
                             "validation error", "")
    /\ UNCHANGED <<uniqueEmail, envSecret, store, nextId, now, reqs, tokens, codec>>

\* a signup that inserts without looking for the email
signup_NoCheck(i, payload) ==
    /\ resp = NoResponse
    /\ Arrives(i)
    /\ SignupRequest(payload)
    /\ Accept(i, "signup", payload, get_password_hash(payload.password, Salt(i)))
    /\ resp' = NoResponse
    /\ UNCHANGED <<uniqueEmail, envSecret, store, nextId, now, tokens, codec>>

\* the existence check, then the hash of the password; print(payload) and
\* print(insert_data) write the password and its hash, logger.debug the first 15
\* characters of the hash
signup(i, payload) ==
    /\ resp = NoResponse
    /\ Arrives(i)
    /\ SignupRequest(payload)
    /\ LET existing_rows == ByEmail(payload.email) IN
       IF existing_rows # {}
       THEN /\ resp' = Wrote(HTTPException("signup", "check", i,
                                           Credentials(payload.email, payload.password),
                                           409, "Email already registered", ""),
                             Shown(payload))
            /\ Reject(i, "signup", 409)
       ELSE \E level \in LogLevels :
               LET hashed_pwd == get_password_hash(payload.password, Salt(i)) IN
               /\ Accept(i, "signup", payload, hashed_pwd)
               /\ resp' = Wrote(NoResponse,
                                Shown(payload) \cup Debug(level, {Argon2Ident})
                                    \cup {hashed_pwd})
    /\ UNCHANGED <<uniqueEmail, envSecret, store, nextId, now, tokens, codec>>

\* an insert that goes on to the fetch whatever the store answered
signup_insert_IgnoreError(i) ==
    /\ resp = NoResponse
    /\ reqs[i].op = "signup" /\ reqs[i].pc = "insert"
    /\ IF UniqueViolation(reqs[i].email)
       THEN /\ reqs' = [reqs EXCEPT ![i].pc = "fetch"]
            /\ UNCHANGED <<store, nextId>>
       ELSE /\ store' = store \cup {NewRow(i, insert_data(i))}
            /\ nextId' = nextId + 1
            /\ Inserted(i)
    /\ resp' = NoResponse
    /\ UNCHANGED <<uniqueEmail, envSecret, now, tokens, codec>>

\* the insert: a store error is a 500, either through insert_res.error or, with a
\* client that raises APIError from execute(), as an exception nothing catches
signup_insert(i) ==
    /\ resp = NoResponse
    /\ reqs[i].op = "signup" /\ reqs[i].pc = "insert"
    /\ LET request == Credentials(reqs[i].email, reqs[i].password) IN
       IF UniqueViolation(reqs[i].email)
       THEN /\ \/ resp' = HTTPException("signup", "insert", i, request, 500,
                                        "Failed to create user", "unique_violation")
               \/ resp' = Unhandled("signup", "insert", i, request, "unique_violation")
            /\ Finish(i, 500)
            /\ UNCHANGED <<store, nextId>>
       ELSE /\ store' = store \cup {NewRow(i, insert_data(i))}
            /\ nextId' = nextId + 1
            /\ Inserted(i)
            /\ resp' = NoResponse
    /\ UNCHANGED <<uniqueEmail, envSecret, now, tokens, codec>>

\* the fetch of the inserted user: by email, limit 1
signup_fetch(i) ==
    /\ resp = NoResponse
    /\ reqs[i].op = "signup" /\ reqs[i].pc = "fetch"
    /\ LET request == Credentials(reqs[i].email, reqs[i].password)
           rows == ByEmail(reqs[i].email) IN
       IF rows = {}
       THEN /\ resp' = HTTPException("signup", "fetch", i, request, 500,
                                     "Failed to fetch created user", "no_row")
            /\ Finish(i, 500)
       ELSE \E row \in rows :
               /\ resp' = UserResponse("signup", "fetch", i, request, 201, UserPublic(row))
               /\ Finish(i, 201)
    /\ UNCHANGED <<uniqueEmail, envSecret, store, nextId, now, tokens, codec>>

----------------------------------------------------------------------------
(* POST /users/upsert *)

\* the existence check; the password is stored as it came
upsert_user(i, payload) ==
    /\ resp = NoResponse
    /\ Arrives(i)
    /\ LET request == Credentials(payload.email, payload.password)
           rows == ByEmail(payload.email) IN
       IF rows # {}
       THEN \E row \in rows :
               /\ resp' = UserResponse("upsert", "check", i, request, 200, UserPublic(row))
               /\ Reject(i, "upsert", 200)
       ELSE /\ Accept(i, "upsert", payload, payload.password)
            /\ resp' = NoResponse
    /\ UNCHANGED <<uniqueEmail, envSecret, store, nextId, now, tokens, codec>>

upsert_insert(i) ==
    /\ resp = NoResponse
    /\ reqs[i].op = "upsert" /\ reqs[i].pc = "insert"
    /\ LET request == Credentials(reqs[i].email, reqs[i].password) IN
       IF UniqueViolation(reqs[i].email)
       THEN /\ \/ resp' = HTTPException("upsert", "insert", i, request, 500,
                                        "Failed to upsert user: duplicate key",
                                        "unique_violation")
               \/ resp' = Unhandled("upsert", "insert", i, request, "unique_violation")
            /\ Finish(i, 500)
            /\ UNCHANGED <<store, nextId>>
       ELSE /\ store' = store \cup {NewRow(i, insert_data(i))}
            /\ nextId' = nextId + 1
            /\ Inserted(i)
            /\ resp' = NoResponse
    /\ UNCHANGED <<uniqueEmail, envSecret, now, tokens, codec>>

upsert_fetch(i) ==
    /\ resp = NoResponse
    /\ reqs[i].op = "upsert" /\ reqs[i].pc = "fetch"
    /\ LET request == Credentials(reqs[i].email, reqs[i].password)
           rows2 == ByEmail(reqs[i].email) IN
       IF rows2 = {}
       THEN /\ resp' = HTTPException("upsert", "fetch", i, request, 500,
                                     "Failed to fetch user", "no_row")
            /\ Finish(i, 500)
       ELSE \E row \in rows2 :
               /\ resp' = UserResponse("upsert", "fetch", i, request, 200, UserPublic(row))
               /\ Finish(i, 200)
    /\ UNCHANGED <<uniqueEmail, envSecret, store, nextId, now, tokens, codec>>

----------------------------------------------------------------------------
(* POST /auth/login, POST /auth/token *)

\* a subject whose sub is the user_id as it is, without str()
Subject_RawId(user_public) ==
    [sub |-> JsonInt(user_public.user_id), email |-> user_public.user_email]

\* the columns login and token select, as logger.debug writes them with the raw result
Columns(row) == {ToString(row.user_id), row.user_email, row.user_pwd, row.first_name,
                 row.last_name}

\* the subject login and token put in the token
Subject(user_public) ==
    [sub |-> Str(user_public.user_id), email |-> user_public.user_email]

login(email, password) ==
    /\ resp = NoResponse
    /\ LET request == Credentials(email, password)
           rows == ByEmail(email) IN
       IF rows = {}
       THEN /\ resp' = Wrote(HTTPException("login", "verify", 0, request, 401,
                                           "Invalid credentials", "not_found"),
                             {email})
            /\ UNCHANGED tokens
       ELSE \E user_row \in rows, level \in LogLevels :
               LET verified == verify_password(password, user_row.user_pwd)
                   user_public == UserPublic(user_row)
                   access_token == create_access_token(Subject(user_public), 0)
                   logged == {email} \cup Debug(level, Columns(user_row)) IN
               CASE verified = "UnknownHashError" ->
                        /\ resp' = Wrote(Unhandled("login", "verify", 0, request, verified),
                                         logged)
                        /\ UNCHANGED tokens
                 [] verified = "mismatch" ->
                        /\ resp' = Wrote(HTTPException("login", "verify", 0, request, 401,
                                                       "Invalid credentials", verified),
                                         logged)
                        /\ UNCHANGED tokens
                 [] verified = "ok" ->
                        /\ resp' = Wrote(TokenResponse("login", request, access_token, user_public),
                                         logged \cup {ToString(user_public.user_id)})
                        /\ tokens' = Keep(access_token)
    /\ UNCHANGED <<uniqueEmail, envSecret, store, nextId, now, reqs, codec>>

\* form_data.username is the email
token(username, password) ==
    /\ resp = NoResponse
    /\ LET request == Credentials(username, password)
           rows == ByEmail(username) IN
       IF rows = {}
       THEN /\ resp' = Wrote(HTTPException("token", "verify", 0, request, 401,
                                           "Invalid credentials", "not_found"),
                             {username})
            /\ UNCHANGED tokens
       ELSE \E user_row \in rows, level \in LogLevels :
               LET verified == verify_password(password, user_row.user_pwd)
                   user_public == UserPublic(user_row)
                   token_str == create_access_token(Subject(user_public), 0)
                   logged == {username} \cup Debug(level, Columns(user_row)) IN
               CASE verified = "UnknownHashError" ->
                        /\ resp' = Wrote(Unhandled("token", "verify", 0, request, verified),
                                         logged)
                        /\ UNCHANGED tokens
                 [] verified = "mismatch" ->
                        /\ resp' = Wrote(HTTPException("token", "verify", 0, request, 401,
                                                       "Invalid credentials", verified),
                                         logged)
                        /\ UNCHANGED tokens
                 [] verified = "ok" ->
                        /\ resp' = Wrote(TokenResponse("token", request, token_str, user_public),
                                         logged \cup {ToString(user_public.user_id)})
                        /\ tokens' = Keep(token_str)
    /\ UNCHANGED <<uniqueEmail, envSecret, store, nextId, now, reqs, codec>>

----------------------------------------------------------------------------
(* The guard of authenticated requests *)

\* tokens this server did not make: a token of a client with its subject or its
\* expiry changed, and tokens signed with a key of the sender's or with the constant
\* in the repository
Tampered(t) ==
    {[t EXCEPT !.claims.sub = Str(n)] : n \in {m \in ReqIds : Str(m) # t.claims.sub}}
        \cup {[t EXCEPT !.claims.exp = t.claims.exp + TickMinutes]}

SelfSigned ==
    {jwt_encode([exp |-> now + JWT_EXPIRE_MINUTES, sub |-> Str(1), email |-> "a@x.com"], k) :
        k \in {"other-key", JWT_SECRET_KEY}}

Presented == tokens \cup UNION {Tampered(t) : t \in tokens} \cup SelfSigned

Bearer(t) == [NoRequest EXCEPT !.bearer = t]

\* maybe_single().execute() when no row matches: a response whose data is None, or,
\* with the postgrest clients that return None there, no response at all, and
\* result.data raises AttributeError
MaybeSingleEmpty == {"data_none", "result_none"}

get_current_user(t) ==
    /\ resp = NoResponse
    /\ LET data == decode_access_token(t) IN
       IF ~data.ok
       THEN resp' = HTTPException("get_current_user", "decode", 0, Bearer(t),
                                  data.status, data.detail, "JWTError")
       ELSE LET result == ById(data.payload.sub) IN
            IF result = {}
            THEN \E outcome \in MaybeSingleEmpty :
                    resp' = [(IF outcome = "data_none"
                              THEN HTTPException("get_current_user", "lookup", 0,
                                                 Bearer(t), 401, "Invalid token",
                                                 "not_found")
                              ELSE Unhandled("get_current_user", "lookup", 0, Bearer(t),
                                             "AttributeError"))
                             EXCEPT !.data = data.payload]
            ELSE \E row \in result :
                    resp' = [UserResponse("get_current_user", "lookup", 0, Bearer(t), 200,
                                          UserPublic(row))
                             EXCEPT !.data = data.payload]
    /\ UNCHANGED <<uniqueEmail, envSecret, store, nextId, now, reqs, tokens, codec>>

----------------------------------------------------------------------------
(* POST /users/verify-password *)

\* a verification that replaces the password it matched with its hash
verify_user_password_Rehash(email, password) ==
    /\ resp = NoResponse
    /\ \E user_row \in ByEmail(email) :
          /\ password = user_row.user_pwd
          /\ store' = (store \ {user_row})
                          \cup {[user_row EXCEPT !.user_pwd = get_password_hash(password,
                                                                               Salt(1))]}
          /\ resp' = UserResponse("verify_user_password", "verify", 0,
                                  Credentials(email, password), 200, UserPublic(user_row))
    /\ UNCHANGED <<uniqueEmail, envSecret, nextId, now, reqs, tokens, codec>>

verify_user_password(email, password) ==
    /\ resp = NoResponse
    /\ LET request == Credentials(email, password)
           rows == ByEmail(email) IN
       IF rows = {}
       THEN resp' = HTTPException("verify_user_password", "verify", 0, request, 401,
                                  "Invalid credentials", "not_found")
       ELSE \E user_row \in rows :
               LET stored_pwd == user_row.user_pwd IN
               resp' = IF password # stored_pwd
                       THEN HTTPException("verify_user_password", "verify", 0, request, 401,
                                          "Invalid credentials", "mismatch")
                       ELSE UserResponse("verify_user_password", "verify", 0, request, 200,
                                         UserPublic(user_row))
    /\ UNCHANGED <<uniqueEmail, envSecret, store, nextId, now, reqs, tokens, codec>>

----------------------------------------------------------------------------
(* The environment *)

\* time passes
Tick ==
    /\ resp = NoResponse
    /\ now < MaxTicks * TickMinutes
    /\ now' = now + TickMinutes
    /\ resp' = NoResponse
    /\ UNCHANGED <<uniqueEmail, envSecret, store, nextId, reqs, tokens, codec>>

\* a row is removed from the hosted table (no endpoint of the service does this)
DeleteRow(r) ==
    /\ resp = NoResponse
    /\ r \in store
    /\ store' = store \ {r}
    /\ resp' = NoResponse
    /\ UNCHANGED <<uniqueEmail, envSecret, nextId, now, reqs, tokens, codec>>

----------------------------------------------------------------------------

----------------------------------------------------------------------------
(* create_access_token and decode_access_token on their own: a token for an id and an
   email with a time to live, decoded at any later time, the process restarted with
   another JWT_SECRET_KEY in between or not *)

\* expires_delta, in minutes (0: the default)
TTLs == {0, 1, JWT_EXPIRE_MINUTES, 2 * JWT_EXPIRE_MINUTES}

InitCodec ==
    /\ uniqueEmail \in BOOLEAN
    /\ envSecret \in EnvSecrets
    /\ store = {}
    /\ nextId = 1
    /\ now = 0
    /\ reqs = [i \in ReqIds |-> IdleReq]
    /\ tokens = {}
    /\ resp = NoResponse
    /\ codec \in {[NoCodec EXCEPT !.pc = "args", !.id = id, !.email = email, !.ttl = ttl] :
                     id \in ReqIds, email \in Emails, ttl \in TTLs}

codec_issue ==
    /\ resp = NoResponse
    /\ codec.pc = "args"
    /\ codec' = [codec EXCEPT !.pc = "issued",
                    !.token = create_access_token(
                                Subject([user_id |-> codec.id, user_email |-> codec.email]),
                                codec.ttl)]
    /\ UNCHANGED <<uniqueEmail, envSecret, store, nextId, now, reqs, tokens, resp>>

codec_decode(t) ==
    /\ resp = NoResponse
    /\ codec.pc = "issued"
    /\ LET data == decode_access_token(t) IN
       resp' = [HTTPException("decode_access_token", "decode", 0, Bearer(t), data.status,
                              data.detail, IF data.ok THEN "" ELSE "JWTError")
                EXCEPT !.data = data.payload]
    /\ UNCHANGED <<uniqueEmail, envSecret, store, nextId, now, reqs, tokens, codec>>

\* the process is restarted with another environment
Restart ==
    /\ resp = NoResponse
    /\ \E secret \in EnvSecrets \ {envSecret} : envSecret' = secret
    /\ UNCHANGED <<uniqueEmail, store, nextId, now, reqs, tokens, resp, codec>>

\* the response reaches its client
Deliver ==
    /\ resp # NoResponse
    /\ resp' = NoResponse
    /\ UNCHANGED <<uniqueEmail, envSecret, store, nextId, now, reqs, tokens, codec>>

Next ==
    \/ \E payload \in BadPayloads : signup_invalid(payload)
    \/ \E i \in ReqIds, payload \in Payloads :
          \/ signup(i, payload)
          \/ upsert_user(i, payload)
    \/ \E i \in ReqIds :
          \/ signup_insert(i)
          \/ signup_fetch(i)
          \/ upsert_insert(i)
          \/ upsert_fetch(i)
    \/ \E email \in Emails, password \in Passwords :
          \/ login(email, password)
          \/ token(email, password)
          \/ verify_user_password(email, password)
    \/ \E t \in Presented : get_current_user(t)
    \/ Tick
    \/ \E r \in store : DeleteRow(r)
    \/ Deliver

Spec == Init /\ [][Next]_vars

NextCodec ==
    \/ codec_issue
    \/ \E t \in {codec.token} \cup Tampered(codec.token) : codec_decode(t)
    \/ Tick
    \/ Restart
    \/ Deliver

SpecCodec == InitCodec /\ [][NextCodec]_vars

----------------------------------------------------------------------------
(* The claims *)

\* the rows a request's email has, and among them the rows of signups that answered 201
\* with the password of the request
RowsOf(request) == ByEmail(request.email)

SignedUp(r, password) ==
    reqs[r.req].op = "signup" /\ reqs[r.req].status = 201 /\ r.supplied = password

\* C1: a login with the email and password of a signup that answered 201, the row
\* that signup inserted being in the table, answers 200 with a token whose decoded
\* sub is the user_id of that row.
C1_SignupThenLogin ==
    resp.op = "login" =>
        \A r \in RowsOf(resp.request) :
            SignedUp(r, resp.request.password) =>
                /\ resp.status = 200
                /\ decode_access_token(resp.body.access_token).payload.sub
                       = ToString(r.user_id)

\* C2: the table holds at most one row per email.
C2_OneRecordPerEmail == \A email \in Emails : Cardinality(ByEmail(email)) <= 1

\* the password is the one of no row of the email
WrongPassword(request) == \A r \in RowsOf(request) : r.supplied # request.password

\* C3: login and token answer an email without a row, and an email with rows but a
\* password that is none of theirs, with 401 "Invalid credentials" and no token.
C3_UniformFailure ==
    (resp.op \in {"login", "token"} /\ WrongPassword(resp.request)) =>
        /\ resp.status = 401
        /\ resp.body.detail = "Invalid credentials"
        /\ resp.body.access_token = NoToken

\* the bearer token of a request is signed by this server and not expired
ValidBearer(request) ==
    /\ request.bearer.sig = HS256(jwt_secret, request.bearer.claims)
    /\ request.bearer.claims.exp >= now

\* C4: get_current_user returns a user only for a token that is validly signed and
\* unexpired and whose sub is the user_id of a row in the table, that row's identity;
\* every other request is answered 401 "Invalid token".
C4_GuardRejectsWith401 ==
    resp.op = "get_current_user" =>
        /\ resp.status = 200 =>
              /\ ValidBearer(resp.request)
              /\ \E r \in store :
                    /\ ToString(r.user_id) = resp.request.bearer.claims.sub.text
                    /\ resp.body.user = UserPublic(r)
        /\ resp.status # 200 =>
              resp.status = 401 /\ resp.body.detail = "Invalid token"

\* C5: a token decoded after its exp is answered 401 "Invalid token" and no payload
\* is returned.
C5_ExpiredRejected ==
    (resp.op \in {"decode_access_token", "get_current_user"}
       /\ now > resp.request.bearer.claims.exp) =>
        /\ resp.status = 401
        /\ resp.body.detail = "Invalid token"
        /\ resp.data = NoPayload

\* C5, its case: a token this server signed is decoded after its exp.
C5_Witness ==
    /\ resp.op = "decode_access_token"
    /\ resp.request.bearer = codec.token
    /\ resp.request.bearer.sig = HS256(jwt_secret, resp.request.bearer.claims)
    /\ now > resp.request.bearer.claims.exp
    /\ resp.status = 401

C7_ConstraintViolationIs409 ==
    (resp.op = "signup" /\ resp.err = "unique_violation") => resp.status = 409

\* C8: a signup whose email has a row when it checks answers 409 "Email already
\* registered", and the table is as it was.
C8_ConflictLeavesStore ==
    [][\A i \in ReqIds, payload \in Payloads :
          (signup(i, payload) /\ ByEmail(payload.email) # {}) =>
              /\ resp'.status = 409
              /\ resp'.body.detail = "Email already registered"
              /\ reqs'[i].pc = "done"
              /\ store' = store]_vars

\* C8, its case: a signup was answered 409 for an email whose row is in the table.
C8_Witness ==
    /\ resp.op = "signup"
    /\ resp.status = 409
    /\ ByEmail(resp.request.email) # {}

\* C9: signup answers 500 when its insert fails and when its fetch finds no row; it
\* answers 201 only after its insert went through, with the identity of a row its
\* fetch found.
C9_StoreErrorIs500 ==
    resp.op = "signup" =>
        /\ resp.err = "unique_violation" => resp.status = 500
        /\ (resp.step = "fetch" /\ ByEmail(resp.request.email) = {}) => resp.status = 500
        /\ resp.status = 201 =>
              /\ resp.step = "fetch"
              /\ reqs[resp.req].inserted
              /\ \E row \in ByEmail(resp.request.email) : resp.body.user = UserPublic(row)

\* C9, its case: of two signups of one email, one was answered 201 and the insert
\* of the other was rejected by the table.
C9_Witness ==
    /\ resp.op = "signup"
    /\ resp.err = "unique_violation"
    /\ resp.status = 500
    /\ \E j \in ReqIds : reqs[j].op = "signup" /\ reqs[j].status = 201

\* every password a request can carry and every user_pwd a row can hold
PasswordStrings ==
    (Passwords \cup ShortPasswords \cup {r.user_pwd : r \in store}
        \cup {reqs[i].user_pwd : i \in ReqIds}) \ {""}

C11_NoDefaultSecret ==
    envSecret = Unset =>
        /\ \A t \in tokens : t.sig.key # JWT_SECRET_KEY
        /\ (resp.op \in {"login", "token"} /\ resp.status = 200) =>
              resp.body.access_token.sig.key # JWT_SECRET_KEY
        /\ (resp.op = "get_current_user" /\ resp.status = 200) =>
              resp.request.bearer.sig.key # JWT_SECRET_KEY

\* C12: no step of signup, login or /auth/token writes a password or a stored
\* user_pwd, whole or in part, to standard output or to the log.
C12_NoPasswordWritten ==
    resp.written \cap (PasswordStrings \cup {Argon2Ident}) = {}

\* C13: for a record whose user_pwd is not a well-formed hash, login and /auth/token
\* answer 401 "Invalid credentials": the verification gives false and raises nothing.
C13_MalformedHashIs401 ==
    (/\ resp.op \in {"login", "token"}
     /\ RowsOf(resp.request) # {}
     /\ \A r \in RowsOf(resp.request) : ~Identified(r.user_pwd)) =>
        /\ resp.err # "UnknownHashError"
        /\ resp.status = 401
        /\ resp.body.detail = "Invalid credentials"

\* C14: the user_pwd of every row is a hash of the password supplied when the row
\* was created, and never that password itself.
C14_StoredPasswordIsHash ==
    \A r \in store :
        /\ r.user_pwd # r.supplied
        /\ \E salt \in Salts : r.user_pwd = get_password_hash(r.supplied, salt)

\* what a client sees of a login or /auth/token response: the status, the detail,
\* the identity and the sub and email claims of the token
Outcome(response) ==
    [status |-> response.status, detail |-> response.body.detail,
     user |-> response.body.user,
     sub |-> response.body.access_token.claims.sub,
     email |-> response.body.access_token.claims.email]

\* the outcomes of the claim: success for a row of the table, or 401
Success(row) ==
    Outcome(TokenResponse("", NoRequest, create_access_token(Subject(UserPublic(row)), 0),
                          UserPublic(row)))

InvalidCredentials ==
    Outcome(HTTPException("", "", 0, NoRequest, 401, "Invalid credentials", ""))

InternalServerError == Outcome(Unhandled("", "", 0, NoRequest, ""))

Outcomes == {InvalidCredentials, InternalServerError} \cup {Success(row) : row \in store}

LoginGives(email, password, outcome) == login(email, password) /\ Outcome(resp') = outcome

TokenGives(email, password, outcome) == token(email, password) /\ Outcome(resp') = outcome

\* /auth/token can answer what /auth/login can, and the other way round
SameOutcomes(email, password) ==
    \A outcome \in Outcomes :
        ENABLED LoginGives(email, password, outcome)
            <=> ENABLED TokenGives(email, password, outcome)

\* C15: on every table and for every email and password, /auth/token and
\* /auth/login give one same outcome, which is a success with the identity of a row
\* and a token with its sub and email, or 401 "Invalid credentials".
C15_TokenSameAsLogin ==
    resp = NoResponse =>
        \A email \in Emails, password \in Passwords :
            /\ SameOutcomes(email, password)
            /\ \A outcome \in Outcomes :
                  ENABLED LoginGives(email, password, outcome) =>
                      /\ outcome # InternalServerError
                      /\ \A other \in Outcomes :
                            ENABLED TokenGives(email, password, other) => other = outcome

\* the time a token kept by a client was made: login and token give it 24 hours
MintedAt(t) == t.claims.exp - 24 * 60

\* C16: a token login or /auth/token answers has as sub the user_id, as a string, of
\* the row whose password was verified, as email that row's email, and as exp the time
\* of the request plus 24 hours; get_current_user answers a token a client got from
\* them with the identity of the row of its sub, at every time before its exp at
\* which that row is in the table, whatever was served since it was made.
C16_TokenLifetime ==
    /\ (resp.op \in {"login", "token"} /\ resp.status = 200) =>
          \E r \in RowsOf(resp.request) :
              /\ verify_password(resp.request.password, r.user_pwd) = "ok"
              /\ resp.body.user = UserPublic(r)
              /\ resp.body.access_token.claims =
                    [exp |-> now + 24 * 60, sub |-> JsonStr(ToString(r.user_id)),
                     email |-> r.user_email]
    /\ (/\ resp.op = "get_current_user"
        /\ resp.request.bearer \in tokens
        /\ now < resp.request.bearer.claims.exp
        /\ ById(resp.request.bearer.claims.sub.text) # {}) =>
          /\ resp.status = 200
          /\ \E r \in ById(resp.request.bearer.claims.sub.text) :
                resp.body.user = UserPublic(r)

\* C16, its case: a token is accepted at a later time than it was made, a row having
\* been created since.
C16_Witness ==
    /\ resp.op = "get_current_user"
    /\ resp.request.bearer \in tokens
    /\ MintedAt(resp.request.bearer) < now
    /\ now < resp.request.bearer.claims.exp
    /\ \E r \in store : r.created_at > MintedAt(resp.request.bearer)
    /\ resp.status = 200

\* C17: a step that changes the table is no step of login, /auth/token,
\* get_current_user or /users/verify-password; if it is a step of the service it is
\* the insert of signup or of upsert and adds one row to the rows there were.
C17_ReadOnlyEndpoints ==
    [][store' # store =>
          /\ ~ \E email \in Emails, password \in Passwords :
                  \/ login(email, password)
                  \/ token(email, password)
                  \/ verify_user_password(email, password)
          /\ ~ \E t \in Presented : get_current_user(t)
          /\ \/ \E r \in store : DeleteRow(r)
             \/ \E i \in ReqIds :
                   /\ signup_insert(i) \/ upsert_insert(i)
                   /\ store \subseteq store'
                   /\ Cardinality(store') = Cardinality(store) + 1]_vars

\* C17, its case: /users/verify-password has answered with the profile of a row.
C17_Witness ==
    /\ resp.op = "verify_user_password"
    /\ resp.status = 200
    /\ \E r \in RowsOf(resp.request) : resp.body.user = UserPublic(r)

\* C18: the identity a signup answers with 201 is that of the row this signup
\* inserted.
C18_SignupReturnsOwnRow ==
    (resp.op = "signup" /\ resp.status = 201) =>
        \E r \in store : r.req = resp.req /\ resp.body.user = UserPublic(r)

\* C19: for an email whose rows were all created with the password of the request,
\* /users/verify-password answers with the profile of such a row; for an email with
\* no row created with it, and for an email with no row, it answers 401 "Invalid
\* credentials".
C19_VerifyPassword ==
    resp.op = "verify_user_password" =>
        /\ (/\ RowsOf(resp.request) # {}
            /\ \A r \in RowsOf(resp.request) : r.supplied = resp.request.password) =>
              /\ resp.status = 200
              /\ \E r \in RowsOf(resp.request) : resp.body.user = UserPublic(r)
        /\ WrongPassword(resp.request) =>
              resp.status = 401 /\ resp.body.detail = "Invalid credentials"

\* C20: a row that upsert_user created has no older row with its email beside it;
\* an upsert that finds the email answers 200 with a record of that email; the
\* user_id an upsert answers is the user_id of every record of the email, so that
\* the same upsert again answers the same user_id.
C20_UpsertIdempotent ==
    /\ \A r \in store :
          reqs[r.req].op = "upsert" =>
              ~ \E q \in ByEmail(r.user_email) : q.user_id < r.user_id
    /\ (resp.op = "upsert" /\ resp.step = "check") =>
          /\ resp.status = 200
          /\ \E r \in RowsOf(resp.request) : resp.body.user = UserPublic(r)
    /\ (resp.op = "upsert" /\ resp.status = 200) =>
          \A r \in RowsOf(resp.request) : resp.body.user.user_id = r.user_id

====
